---- MODULE Spec2Model ----
(***************************************************************************)
(* Response containers of starlite/response_containers.py: File, Redirect, *)
(* Stream and Template.  A route handler constructs a container; the       *)
(* framework later calls to_response(headers, media_type, status_code,     *)
(* app, request) on it.                                                    *)
(*                                                                         *)
(* Python values are modelled as follows.  Opaque objects (background      *)
(* tasks, etags, stat results, template engines) are strings naming the    *)
(* object, with None the string "None".  dicts are functions, lists are    *)
(* sequences, objects with attributes are records.  A method is an         *)
(* operator that takes self and returns a record holding self after the    *)
(* call, the exception raised ("None" when it returns normally) and what   *)
(* the call observed of its environment.                                   *)
(***************************************************************************)
EXTENDS Integers, Sequences, FiniteSets, TLC

VARIABLES
    app,          \* the running application handed to to_response
    container,    \* the container the handler holds, NoObject when it holds none
    ctor,         \* the most recent construction: class, arguments and outcome
    last,         \* the most recent to_response call: arguments and outcome
    calls,        \* invocations of the Stream source callable since construction began
    conversions   \* to_response calls made on the current container

vars == <<app, container, ctor, last, calls, conversions>>

\* ---------------------------------------------------------------- bounds

\* to_response calls explored on one container
MaxConversions == 2

\* ---------------------------------------------------------------- values

None == "None"

ImproperlyConfiguredException == "ImproperlyConfiguredException"

\* Python truth value of an optional object: None is falsy; an os.stat_result (a
\* non-empty struct sequence) and a template engine object are truthy
Truthy(v) == v # None

NoObject == [kind |-> "None"]

\* starlite.constants.DEFAULT_CHUNK_SIZE, an integer set outside this file
DEFAULT_CHUNK_SIZE == "DEFAULT_CHUNK_SIZE"

\* dict.get(key, default)
dict_get(d, key, default) == IF key \in DOMAIN d THEN d[key] ELSE default

EmptyDict == [k \in {} |-> ""]

Headers == {EmptyDict, [k \in {"x-frame-options"} |-> "deny"]}

Cookies == {<<>>, <<"session=abc">>}

MediaTypes == {"text/html", "application/json"}

OptMediaTypes == {None, "text/plain"}

StatusCodes == {200, 301, 302, 303, 307, 308}

Apps == [template_engine : {None, "JinjaTemplateEngine"}]

Requests ==
    { [id |-> "req1", scope |-> [k \in {"type"} |-> "http"]],
      [id |-> "req2", scope |-> [k \in {"type", "_csrf_token"} |->
                                    IF k = "type" THEN "http" ELSE "s3cr3t"]],
      [id |-> "req3", scope |-> [k \in {"type", "_csrf_token"} |->
                                    IF k = "type" THEN "http" ELSE ""]] }

ToResponseArgs ==
    [headers : Headers, media_type : MediaTypes, status_code : StatusCodes,
     request : Requests]

\* ---------------------------------------------------------------- File

Paths == {"/srv/report.pdf", "/srv/missing.pdf"}

\* the files that exist on the local disk
Disk == {"/srv/report.pdf"}

\* Path(path).stat(): the stat result of an existing file, FileNotFoundError otherwise
Path_stat(path) ==
    IF path \in Disk
    THEN [exc |-> None, ret |-> "os.stat_result(" \o path \o ")"]
    ELSE [exc |-> "FileNotFoundError", ret |-> None]

\* an attribute of a file_system handle: absent, a plain value, or a method
AttrKinds == {"absent", "data", "method"}

FileSystems == [info : AttrKinds, open : AttrKinds]

\* getattr(obj, name, None)
getattr(obj, name) == IF obj[name] = "absent" THEN None ELSE obj[name]

\* callable(getattr(obj, name, None)): None and plain values are not callable
has_callable(obj, name) == getattr(obj, name) = "method"

\* the capability check and the stat in the opposite order
File___post_init___StatFirst(self) ==
    LET s == IF ~Truthy(self.stat_result) THEN Path_stat(self.path)
             ELSE [exc |-> None, ret |-> self.stat_result]
        log == IF ~Truthy(self.stat_result) THEN <<self.path>> ELSE <<>>
    IN  IF s.exc # None
        THEN [self |-> self, exc |-> s.exc, statted |-> log]
        ELSE IF ~(has_callable(self.file_system, "info")
                  /\ has_callable(self.file_system, "open"))
        THEN [self |-> self, exc |-> ImproperlyConfiguredException, statted |-> log]
        ELSE [self |-> [self EXCEPT !.stat_result = s.ret], exc |-> None, statted |-> log]

\* the stat made whether or not a stat_result was supplied
File___post_init___AlwaysStat(self) ==
    IF ~(has_callable(self.file_system, "info")
         /\ has_callable(self.file_system, "open"))
    THEN [self |-> self, exc |-> ImproperlyConfiguredException, statted |-> <<>>]
    ELSE LET s == Path_stat(self.path)
         IN  [self    |-> IF s.exc = None THEN [self EXCEPT !.stat_result = s.ret] ELSE self,
              exc     |-> s.exc,
              statted |-> <<self.path>>]

File___post_init__(self) ==
    IF ~(has_callable(self.file_system, "info")
         /\ has_callable(self.file_system, "open"))
    THEN [self |-> self, exc |-> ImproperlyConfiguredException, statted |-> <<>>]
    ELSE IF ~Truthy(self.stat_result)
    THEN LET s == Path_stat(self.path)
         IN  [self    |-> IF s.exc = None THEN [self EXCEPT !.stat_result = s.ret] ELSE self,
              exc     |-> s.exc,
              statted |-> <<self.path>>]
    ELSE [self |-> self, exc |-> None, statted |-> <<>>]

FileArgs ==
    [path : Paths, headers : Headers, cookies : Cookies, media_type : OptMediaTypes,
     stat_result : {None, "os.stat_result(supplied)"},
     file_system : FileSystems,
     file_info : {None, "FileInfo(supplied)"}]

\* the dataclass-generated __init__: the fields from the arguments and the defaults
File___init__(a) ==
    [kind |-> "File",
     path |-> a.path,
     background |-> None,
     headers |-> a.headers,
     cookies |-> a.cookies,
     media_type |-> a.media_type,
     encoding |-> "utf-8",
     filename |-> None,
     stat_result |-> a.stat_result,
     chunk_size |-> DEFAULT_CHUNK_SIZE,
     content_disposition_type |-> "attachment",
     etag |-> None,
     file_system |-> a.file_system,
     file_info |-> a.file_info]

\* the container's own headers and media type in place of the resolved arguments
File_to_response_OwnHeaders(self, headers, media_type, status_code, theApp, request) ==
    [self |-> self, exc |-> None, invoked |-> 0,
     ret  |-> [kind |-> "FileResponse",
               background |-> self.background,
               chunk_size |-> self.chunk_size,
               content_disposition_type |-> self.content_disposition_type,
               encoding |-> self.encoding,
               etag |-> self.etag,
               file_info |-> self.file_info,
               file_system |-> self.file_system,
               filename |-> self.filename,
               headers |-> self.headers,
               media_type |-> IF Truthy(self.media_type) THEN self.media_type ELSE media_type,
               path |-> self.path,
               stat_result |-> self.stat_result,
               status_code |-> status_code]]

File_to_response(self, headers, media_type, status_code, theApp, request) ==
    [self |-> self, exc |-> None, invoked |-> 0,
     ret  |-> [kind |-> "FileResponse",
               background |-> self.background,
               chunk_size |-> self.chunk_size,
               content_disposition_type |-> self.content_disposition_type,
               encoding |-> self.encoding,
               etag |-> self.etag,
               file_info |-> self.file_info,
               file_system |-> self.file_system,
               filename |-> self.filename,
               headers |-> headers,
               media_type |-> media_type,
               path |-> self.path,
               stat_result |-> self.stat_result,
               status_code |-> status_code]]

\* ---------------------------------------------------------------- Redirect

RedirectArgs ==
    [path : {"/login", "/home"}, headers : Headers, cookies : Cookies,
     media_type : OptMediaTypes, background : {None, "BackgroundTask(audit)"}]

\* the dataclass-generated __init__ of Redirect
Redirect___init__(a) ==
    [kind |-> "Redirect",
     path |-> a.path,
     background |-> a.background,
     headers |-> a.headers,
     cookies |-> a.cookies,
     media_type |-> a.media_type,
     encoding |-> "utf-8"]

\* starlite.response.RedirectResponse(...): the response value holding what it is
\* given; the status code is constrained by its type annotation only, no check is
\* made when the value is built
RedirectResponse(background, encoding, headers, status_code, url) ==
    [exc |-> None,
     ret |-> [kind |-> "RedirectResponse",
              background |-> background,
              encoding |-> encoding,
              headers |-> headers,
              status_code |-> status_code,
              url |-> url]]

\* the container's own headers in place of the resolved ones, extended by the media type
Redirect_to_response_OwnHeaders(self, headers, media_type, status_code, theApp, request) ==
    LET own == [k \in DOMAIN self.headers \cup {"content-type"} |->
                    IF k = "content-type" THEN media_type ELSE self.headers[k]]
        r == RedirectResponse(self.background, self.encoding, own, status_code, self.path)
    IN  [self |-> self, exc |-> r.exc, ret |-> r.ret, invoked |-> 0]

Redirect_to_response(self, headers, media_type, status_code, theApp, request) ==
    LET r == RedirectResponse(self.background, self.encoding, headers, status_code,
                              self.path)
    IN  [self |-> self, exc |-> r.exc, ret |-> r.ret, invoked |-> 0]

\* ---------------------------------------------------------------- Stream

\* the special methods an object given as a Stream source may have
AttrSets ==
    { {}, {"__next__"}, {"__iter__"}, {"__iter__", "__next__"},
      {"__aiter__"}, {"__aiter__", "__anext__"} }

\* The objects given as Stream sources: the special methods the object has, and what
\* calling it does: "none" (not callable), "returns" (ret holds the value returned) or
\* "raises".
PlainValues == [attrs : AttrSets, call : {"none"}, ret : {<<>>}]

StreamValues ==
    PlainValues
    \cup [attrs : AttrSets, call : {"raises"}, ret : {<<>>}]
    \cup [attrs : AttrSets, call : {"returns"}, ret : {<<v>> : v \in PlainValues}]

\* the structural checks of the collections.abc classes
Implements(obj, class) ==
    CASE class = "Iterable"      -> "__iter__" \in obj.attrs
      [] class = "Iterator"      -> {"__iter__", "__next__"} \subseteq obj.attrs
      [] class = "AsyncIterable" -> "__aiter__" \in obj.attrs
      [] class = "AsyncIterator" -> {"__aiter__", "__anext__"} \subseteq obj.attrs

isinstance(obj, classes) == \E class \in classes : Implements(obj, class)

callable(obj) == obj.call # "none"

\* obj(): the value returned, the exception the callable raises, or TypeError
call(obj) ==
    CASE obj.call = "returns" -> [exc |-> None, ret |-> obj.ret]
      [] obj.call = "raises"  -> [exc |-> "RuntimeError", ret |-> <<>>]
      [] obj.call = "none"    -> [exc |-> "TypeError", ret |-> <<>>]

StreamArgs == [iterator : StreamValues]

\* the dataclass-generated __init__ of Stream
Stream___init__(a) ==
    [kind |-> "Stream",
     iterator |-> a.iterator,
     background |-> None,
     headers |-> EmptyDict,
     cookies |-> <<>>,
     media_type |-> None,
     encoding |-> "utf-8"]

PostInitClasses == {"Iterable", "Iterator", "AsyncIterable", "AsyncIterator"}

\* the returned value is checked but the callable is kept as the stored iterator
Stream___post_init___KeepsCallable(self) ==
    LET mustCall == ~isinstance(self.iterator, PostInitClasses) /\ callable(self.iterator)
        c == call(self.iterator)
    IN  IF mustCall /\ c.exc # None
        THEN [self |-> self, exc |-> c.exc, invoked |-> 1]
        ELSE LET it == IF mustCall THEN c.ret[1] ELSE self.iterator
             IN  [self    |-> self,
                  exc     |-> IF ~isinstance(it, PostInitClasses)
                              THEN ImproperlyConfiguredException ELSE None,
                  invoked |-> IF mustCall THEN 1 ELSE 0]

\* the final iterability check left out
Stream___post_init___NoCheck(self) ==
    LET mustCall == ~isinstance(self.iterator, PostInitClasses) /\ callable(self.iterator)
        c == call(self.iterator)
    IN  IF mustCall /\ c.exc # None
        THEN [self |-> self, exc |-> c.exc, invoked |-> 1]
        ELSE LET it == IF mustCall THEN c.ret[1] ELSE self.iterator
             IN  [self    |-> [self EXCEPT !.iterator = it],
                  exc     |-> None,
                  invoked |-> IF mustCall THEN 1 ELSE 0]

Stream___post_init__(self) ==
    LET mustCall == ~isinstance(self.iterator, PostInitClasses) /\ callable(self.iterator)
        c == call(self.iterator)
    IN  IF mustCall /\ c.exc # None
        THEN [self |-> self, exc |-> c.exc, invoked |-> 1]
        ELSE LET it == IF mustCall THEN c.ret[1] ELSE self.iterator
             IN  [self    |-> [self EXCEPT !.iterator = it],
                  exc     |-> IF ~isinstance(it, PostInitClasses)
                              THEN ImproperlyConfiguredException ELSE None,
                  invoked |-> IF mustCall THEN 1 ELSE 0]

Stream_to_response(self, headers, media_type, status_code, theApp, request) ==
    LET asIs == isinstance(self.iterator, {"Iterable", "AsyncIterable"})
        c == IF asIs THEN [exc |-> None, ret |-> <<self.iterator>>] ELSE call(self.iterator)
    IN  IF c.exc # None
        THEN [self |-> self, exc |-> c.exc, ret |-> NoObject, invoked |-> 1]
        ELSE [self |-> self, exc |-> None, invoked |-> IF asIs THEN 0 ELSE 1,
              ret  |-> [kind |-> "StreamingResponse",
                        background |-> self.background,
                        content |-> c.ret[1],
                        encoding |-> self.encoding,
                        headers |-> headers,
                        media_type |-> media_type,
                        status_code |-> status_code]]

\* ---------------------------------------------------------------- Template

\* a request object left in a stored context by earlier code
StaleRequest ==
    [id |-> "req0", scope |-> [k \in {"type", "_csrf_token"} |->
                                  IF k = "type" THEN "http" ELSE "0ld"]]

ContextKeys == {"title", "request", "csrf_input"}

ContextValue(k) ==
    CASE k = "title"      -> "Home"
      [] k = "request"    -> StaleRequest
      [] k = "csrf_input" -> "<input name=\"stale\" />"

Contexts == {[k \in K |-> ContextValue(k)] : K \in SUBSET ContextKeys}

TemplateArgs == [name : {"index.html", "about.html"}, context : Contexts,
                 media_type : OptMediaTypes]

\* the dataclass-generated __init__ of Template; Template has no __post_init__
Template___init__(a) ==
    [kind |-> "Template",
     name |-> a.name,
     context |-> a.context,
     background |-> None,
     headers |-> EmptyDict,
     cookies |-> <<>>,
     media_type |-> a.media_type,
     encoding |-> "utf-8"]

\* the stored context spread last, so that its keys win
create_template_context_StoredWins(self, request) ==
    LET csrf_token == dict_get(request.scope, "_csrf_token", "")
    IN  [k \in DOMAIN self.context \cup {"request", "csrf_input"} |->
            IF k \in DOMAIN self.context THEN self.context[k]
            ELSE IF k = "request" THEN request
            ELSE "<input type=\"hidden\" name=\"_csrf_token\" value=\""
                 \o csrf_token \o "\" />"]

create_template_context(self, request) ==
    LET csrf_token == dict_get(request.scope, "_csrf_token", "")
    IN  [k \in DOMAIN self.context \cup {"request", "csrf_input"} |->
            IF k = "request" THEN request
            ELSE IF k = "csrf_input"
            THEN "<input type=\"hidden\" name=\"_csrf_token\" value=\""
                 \o csrf_token \o "\" />"
            ELSE self.context[k]]

\* the engine check left out
Template_to_response_NoEngineCheck(self, headers, media_type, status_code, theApp, request) ==
    [self |-> self, exc |-> None, invoked |-> 0,
     ret  |-> [kind |-> "TemplateResponse",
               background |-> self.background,
               context |-> create_template_context(self, request),
               encoding |-> self.encoding,
               headers |-> headers,
               status_code |-> status_code,
               template_engine |-> theApp.template_engine,
               template_name |-> self.name,
               media_type |-> media_type]]

\* the render context written back into the container (self.context.update(...))
Template_to_response_UpdatesContext(self, headers, media_type, status_code, theApp, request) ==
    IF ~Truthy(theApp.template_engine)
    THEN [self |-> self, exc |-> ImproperlyConfiguredException, ret |-> NoObject,
          invoked |-> 0]
    ELSE [self |-> [self EXCEPT !.context = create_template_context(self, request)],
          exc |-> None, invoked |-> 0,
          ret  |-> [kind |-> "TemplateResponse",
                    background |-> self.background,
                    context |-> create_template_context(self, request),
                    encoding |-> self.encoding,
                    headers |-> headers,
                    status_code |-> status_code,
                    template_engine |-> theApp.template_engine,
                    template_name |-> self.name,
                    media_type |-> media_type]]

Template_to_response(self, headers, media_type, status_code, theApp, request) ==
    IF ~Truthy(theApp.template_engine)
    THEN [self |-> self, exc |-> ImproperlyConfiguredException, ret |-> NoObject,
          invoked |-> 0]
    ELSE [self |-> self, exc |-> None, invoked |-> 0,
          ret  |-> [kind |-> "TemplateResponse",
                    background |-> self.background,
                    context |-> create_template_context(self, request),
                    encoding |-> self.encoding,
                    headers |-> headers,
                    status_code |-> status_code,
                    template_engine |-> theApp.template_engine,
                    template_name |-> self.name,
                    media_type |-> media_type]]

\* ---------------------------------------------------------------- state machine

NoCall == [cls |-> "None", args |-> NoObject, exc |-> None, ret |-> NoObject]

NoCtor == [cls |-> "None", args |-> NoObject, exc |-> None, statted |-> <<>>,
           made |-> NoObject]

Init ==
    /\ app \in Apps
    /\ container = NoObject
    /\ ctor = NoCtor
    /\ last = NoCall
    /\ calls = 0
    /\ conversions = 0

\* the handler evaluates File(...); a handler constructs one container
NewFile ==
    /\ ctor = NoCtor
    /\ \E a \in FileArgs :
        LET r == File___post_init__(File___init__(a))
            made == IF r.exc = None THEN r.self ELSE NoObject
        IN  /\ container' = made
            /\ ctor' = [cls |-> "File", args |-> a, exc |-> r.exc,
                        statted |-> r.statted, made |-> made]
            /\ last' = NoCall
            /\ calls' = 0
            /\ conversions' = 0
            /\ UNCHANGED app

\* the framework calls to_response on the File the handler returned
FileToResponse ==
    /\ container.kind = "File"
    /\ conversions < MaxConversions
    /\ \E a \in ToResponseArgs :
        LET r == File_to_response(container, a.headers, a.media_type, a.status_code,
                                  app, a.request)
        IN  /\ container' = r.self
            /\ last' = [cls |-> "File", args |-> a, exc |-> r.exc, ret |-> r.ret]
            /\ calls' = calls + r.invoked
            /\ conversions' = conversions + 1
            /\ UNCHANGED <<app, ctor>>

\* the handler evaluates Redirect(...)
NewRedirect ==
    /\ ctor = NoCtor
    /\ \E a \in RedirectArgs :
        LET made == Redirect___init__(a)
        IN  /\ container' = made
            /\ ctor' = [cls |-> "Redirect", args |-> a, exc |-> None,
                        statted |-> <<>>, made |-> made]
            /\ last' = NoCall
            /\ calls' = 0
            /\ conversions' = 0
            /\ UNCHANGED app

\* the handler evaluates Stream(...)
NewStream ==
    /\ ctor = NoCtor
    /\ \E a \in StreamArgs :
        LET r == Stream___post_init__(Stream___init__(a))
            made == IF r.exc = None THEN r.self ELSE NoObject
        IN  /\ container' = made
            /\ ctor' = [cls |-> "Stream", args |-> a, exc |-> r.exc,
                        statted |-> <<>>, made |-> made]
            /\ last' = NoCall
            /\ calls' = r.invoked
            /\ conversions' = 0
            /\ UNCHANGED app

\* the handler evaluates Template(...)
NewTemplate ==
    /\ ctor = NoCtor
    /\ \E a \in TemplateArgs :
        LET made == Template___init__(a)
        IN  /\ container' = made
            /\ ctor' = [cls |-> "Template", args |-> a, exc |-> None,
                        statted |-> <<>>, made |-> made]
            /\ last' = NoCall
            /\ calls' = 0
            /\ conversions' = 0
            /\ UNCHANGED app

\* the framework calls to_response on the Redirect the handler returned
RedirectToResponse ==
    /\ container.kind = "Redirect"
    /\ conversions < MaxConversions
    /\ \E a \in ToResponseArgs :
        LET r == Redirect_to_response(container, a.headers, a.media_type, a.status_code,
                                      app, a.request)
        IN  /\ container' = r.self
            /\ last' = [cls |-> "Redirect", args |-> a, exc |-> r.exc, ret |-> r.ret]
            /\ calls' = calls + r.invoked
            /\ conversions' = conversions + 1
            /\ UNCHANGED <<app, ctor>>

\* the framework calls to_response on the Stream the handler returned
StreamToResponse ==
    /\ container.kind = "Stream"
    /\ conversions < MaxConversions
    /\ \E a \in ToResponseArgs :
        LET r == Stream_to_response(container, a.headers, a.media_type, a.status_code,
                                    app, a.request)
        IN  /\ container' = r.self
            /\ last' = [cls |-> "Stream", args |-> a, exc |-> r.exc, ret |-> r.ret]
            /\ calls' = calls + r.invoked
            /\ conversions' = conversions + 1
            /\ UNCHANGED <<app, ctor>>

\* the framework calls to_response on the Template the handler returned
TemplateToResponse ==
    /\ container.kind = "Template"
    /\ conversions < MaxConversions
    /\ \E a \in ToResponseArgs :
        LET r == Template_to_response(container, a.headers, a.media_type, a.status_code,
                                      app, a.request)
        IN  /\ container' = r.self
            /\ last' = [cls |-> "Template", args |-> a, exc |-> r.exc, ret |-> r.ret]
            /\ calls' = calls + r.invoked
            /\ conversions' = conversions + 1
            /\ UNCHANGED <<app, ctor>>

Next ==
    \/ NewFile
    \/ NewRedirect
    \/ NewStream
    \/ NewTemplate
    \/ FileToResponse
    \/ RedirectToResponse
    \/ StreamToResponse
    \/ TemplateToResponse

Spec == Init /\ [][Next]_vars

\* ---------------------------------------------------------------- properties

\* the file_system handle exposes both a callable info and a callable open
ValidFileSystem(fs) == fs.info = "method" /\ fs.open = "method"

\* C1: a File built with a file_system handle that lacks a callable info or a callable
\* open fails with ImproperlyConfiguredException, whatever the path and the
\* stat_result, and no stat of the path was made before the failure.
C1_InvalidFileSystemRejected ==
    (ctor.cls = "File" /\ ~ValidFileSystem(ctor.args.file_system))
        => /\ ctor.exc = ImproperlyConfiguredException
           /\ ctor.statted = <<>>
           /\ container = NoObject

\* C1 witness: open is a plain value, the path is missing and no stat_result was given,
\* so a stat made first would have raised FileNotFoundError instead.
C1_Witness ==
    /\ ctor.cls = "File"
    /\ ctor.args.file_system = [info |-> "method", open |-> "data"]
    /\ ctor.args.path = "/srv/missing.pdf"
    /\ ctor.args.stat_result = None
    /\ ctor.exc = ImproperlyConfiguredException

IsIterableObject(obj) == "__iter__" \in obj.attrs \/ "__aiter__" \in obj.attrs

\* C3: a Stream source that is neither iterable nor callable, or that is a
\* non-iterable callable returning a non-iterable value, makes the construction fail
\* with ImproperlyConfiguredException; no Stream exists whose stored iterator is not
\* iterable.
C3_NonIterableStreamRejected ==
    /\ (ctor.cls = "Stream"
        /\ ~IsIterableObject(ctor.args.iterator)
        /\ \/ ctor.args.iterator.call = "none"
           \/ /\ ctor.args.iterator.call = "returns"
              /\ ~IsIterableObject(ctor.args.iterator.ret[1]))
            => /\ ctor.exc = ImproperlyConfiguredException
               /\ container = NoObject
    /\ container.kind = "Stream" => IsIterableObject(container.iterator)

\* C3 witness: a callable returning an object that has __next__ but no __iter__.
C3_Witness ==
    /\ ctor.cls = "Stream"
    /\ ctor.args.iterator.call = "returns"
    /\ ctor.args.iterator.attrs = {}
    /\ ctor.args.iterator.ret[1].attrs = {"__next__"}
    /\ ctor.exc = ImproperlyConfiguredException

\* C4: a non-iterable callable returning an iterable is invoked once, during the
\* construction, after which the stored iterator is the returned iterable; no
\* to_response invokes it again, the response content being the stored iterable
\* itself.  A source that is iterable is never invoked, callable or not.
C4_CallableInvokedOnce ==
    /\ (ctor.cls = "Stream"
        /\ ~IsIterableObject(ctor.args.iterator)
        /\ ctor.args.iterator.call = "returns"
        /\ IsIterableObject(ctor.args.iterator.ret[1]))
            => /\ ctor.exc = None
               /\ calls = 1
               /\ container.kind = "Stream"
               /\ container.iterator = ctor.args.iterator.ret[1]
               /\ last.cls = "Stream"
                    => /\ last.exc = None
                       /\ last.ret.content = ctor.args.iterator.ret[1]
    /\ (ctor.cls = "Stream" /\ IsIterableObject(ctor.args.iterator))
            => /\ calls = 0
               /\ container.iterator = ctor.args.iterator
               /\ last.cls = "Stream"
                    => /\ last.exc = None
                       /\ last.ret.content = ctor.args.iterator

\* C4 witness: a Stream built from such a callable, converted twice, one invocation.
C4_Witness ==
    /\ ctor.cls = "Stream"
    /\ ~IsIterableObject(ctor.args.iterator)
    /\ ctor.args.iterator.call = "returns"
    /\ conversions = 2
    /\ last.cls = "Stream"
    /\ last.ret.content = ctor.args.iterator.ret[1]
    /\ calls = 1

\* C5: Template.to_response fails with ImproperlyConfiguredException, and produces no
\* response, whenever the application has no template engine, whatever the name, the
\* context and the arguments; the construction of a Template never fails.
C5_NoEngineRejected ==
    /\ (last.cls = "Template" /\ app.template_engine = None)
            => /\ last.exc = ImproperlyConfiguredException
               /\ last.ret = NoObject
    /\ ctor.cls = "Template"
            => /\ ctor.exc = None
               /\ ctor.made.kind = "Template"
               /\ ctor.made.name = ctor.args.name
               /\ ctor.made.context = ctor.args.context

\* C5 witness: a Template built in an application without an engine, then converted.
C5_Witness ==
    /\ app.template_engine = None
    /\ container.kind = "Template"
    /\ last.cls = "Template"
    /\ last.exc = ImproperlyConfiguredException

\* what C6 asks of a render context built from the stored context for a request
C6_ContextOk(ctx, stored, request) ==
    LET token == IF "_csrf_token" \in DOMAIN request.scope
                 THEN request.scope["_csrf_token"] ELSE ""
    IN  /\ DOMAIN ctx = DOMAIN stored \cup {"request", "csrf_input"}
        /\ ctx["request"] = request
        /\ ctx["csrf_input"]
             = "<input type=\"hidden\" name=\"_csrf_token\" value=\"" \o token \o "\" />"
        /\ \A k \in DOMAIN stored \ {"request", "csrf_input"} : ctx[k] = stored[k]

\* C6: the context made by create_template_context has the stored keys plus request
\* and csrf_input; request is the given request, csrf_input the hidden-input markup
\* of the token under the scope key _csrf_token ("" when absent); the other stored
\* keys keep their values.  It holds of every request, and of the context of every
\* template response produced.
C6_TemplateContext ==
    container.kind = "Template"
        => /\ \A r \in Requests :
                C6_ContextOk(create_template_context(container, r), container.context, r)
           /\ (last.cls = "Template" /\ last.exc = None)
                => C6_ContextOk(last.ret.context, ctor.args.context, last.args.request)

\* C6 witness: the stored context already has request and csrf_input; the response's
\* context carries the request's token.
C6_Witness ==
    /\ container.kind = "Template"
    /\ DOMAIN container.context = {"title", "request", "csrf_input"}
    /\ last.cls = "Template"
    /\ last.exc = None
    /\ last.args.request.id = "req2"
    /\ last.ret.context["csrf_input"]
         = "<input type=\"hidden\" name=\"_csrf_token\" value=\"s3cr3t\" />"
    /\ last.ret.context["title"] = "Home"

\* C7: Redirect.to_response called with a status code outside {301, 302, 303, 307,
\* 308} does not yield a redirect response carrying that status code.
C7_RedirectStatusEnforced ==
    (last.cls = "Redirect" /\ last.args.status_code \notin {301, 302, 303, 307, 308})
        => ~(/\ last.exc = None
             /\ last.ret.kind = "RedirectResponse"
             /\ last.ret.status_code = last.args.status_code)

\* C8: with a redirect status code, the response of Redirect.to_response has the
\* container's path as target, the given status code and the headers argument, and
\* is the same whatever the media type.
C8_RedirectResponse ==
    (last.cls = "Redirect" /\ last.args.status_code \in {301, 302, 303, 307, 308})
        => /\ last.exc = None
           /\ last.ret.kind = "RedirectResponse"
           /\ last.ret.url = container.path
           /\ last.ret.status_code = last.args.status_code
           /\ last.ret.headers = last.args.headers
           /\ \A m \in MediaTypes :
                Redirect_to_response(container, last.args.headers, m,
                                     last.args.status_code, app, last.args.request).ret
                    = last.ret

\* C8 witness: Redirect(path="/login") converted with status 302 and text/html, the
\* headers argument differing from the container's own headers.
C8_Witness ==
    /\ last.cls = "Redirect"
    /\ container.path = "/login"
    /\ last.args.status_code = 302
    /\ last.args.media_type = "text/html"
    /\ last.args.headers # container.headers
    /\ last.ret.url = "/login"
    /\ last.ret.status_code = 302

FileFields ==
    {"path", "filename", "stat_result", "chunk_size", "content_disposition_type", "etag",
     "file_system", "file_info", "background", "encoding", "headers", "cookies",
     "media_type"}

\* C9 as stated: every field of the File appears in the file response with the
\* container's value, the response's headers, media_type and status_code being the
\* arguments of to_response.
C9_Original ==
    (last.cls = "File" /\ last.exc = None)
        => /\ \A f \in FileFields : f \in DOMAIN last.ret /\ last.ret[f] = container[f]
           /\ last.ret.headers = last.args.headers
           /\ last.ret.media_type = last.args.media_type
           /\ last.ret.status_code = last.args.status_code

\* C9 amended: every field of the File other than headers, cookies and media_type
\* appears in the file response with the container's value; the response's headers,
\* media_type and status_code are the arguments of to_response; the container's own
\* headers, cookies and media_type are not put into the response.
C9_FileResponse ==
    last.cls = "File"
        => /\ last.exc = None
           /\ \A f \in FileFields \ {"headers", "cookies", "media_type"} :
                f \in DOMAIN last.ret /\ last.ret[f] = container[f]
           /\ last.ret.headers = last.args.headers
           /\ last.ret.media_type = last.args.media_type
           /\ last.ret.status_code = last.args.status_code
           /\ DOMAIN last.ret = (FileFields \ {"cookies"}) \cup {"kind", "status_code"}

\* C9 witness: a File with headers, cookies and a media type of its own, converted
\* with other headers; the response carries the stat result made at construction.
C9_Witness ==
    /\ last.cls = "File"
    /\ container.cookies # <<>>
    /\ container.media_type = "text/plain"
    /\ container.headers # last.args.headers
    /\ last.ret.path = "/srv/report.pdf"
    /\ last.ret.stat_result = "os.stat_result(/srv/report.pdf)"
    /\ last.ret.file_info = "FileInfo(supplied)"

\* C10: to_response leaves every field of the container as it was: after any number
\* of to_response calls the container is what the construction made.
C10_ToResponseKeepsContainer ==
    conversions > 0 => container = ctor.made

\* C10 witness: a Template whose stored context has neither request nor csrf_input,
\* converted twice with success.
C10_Witness ==
    /\ container.kind = "Template"
    /\ DOMAIN container.context = {"title"}
    /\ conversions = 2
    /\ last.exc = None
    /\ "csrf_input" \in DOMAIN last.ret.context

====
